---- MODULE Spec2Model ----
(***************************************************************************)
(* Model of highpycharts.py: seven chart builders that reshape a pandas    *)
(* DataFrame into series records and an options dictionary and hand both   *)
(* to a Highstock / Highchart object.                                      *)
(*                                                                         *)
(* A DataFrame is a record                                                 *)
(*   [columns    : sequence of column names,                               *)
(*    index      : sequence of row labels (timestamps as epoch ms),        *)
(*    index_name : name of the index, "" for None,                         *)
(*    data       : sequence of columns, data[c][r] the cell of row r]      *)
(* DataFrames live in a heap (a sequence of frames addressed by position)  *)
(* so that in-place writes (data[name] = ..., data.columns = ...) and      *)
(* copies (data.copy(), reset_index, sort_values) are distinguished.       *)
(***************************************************************************)
EXTENDS Integers, Sequences, FiniteSets, TLC

VARIABLES call, data, data2, chart, axisFormatDateTime

vars == <<call, data, data2, chart, axisFormatDateTime>>

(***************************************************************************)
(* Bounds of the explored inputs.                                          *)
(***************************************************************************)
MaxRows == 3

MaxDecimals == 2

(***************************************************************************)
(* Python values that reach int(range_sel).  A float is held in tenths.    *)
(***************************************************************************)
PyInt(n) == [kind |-> "int", val |-> n]

PyFloat(tenths) == [kind |-> "float", val |-> tenths]

PyNone == [kind |-> "NoneType", val |-> 0]

\* class DefaultRange(IntEnum)
DefaultRange ==
  [one_month   |-> [kind |-> "DefaultRange", val |-> 0],
   three_month |-> [kind |-> "DefaultRange", val |-> 1],
   six_month   |-> [kind |-> "DefaultRange", val |-> 2],
   ytd         |-> [kind |-> "DefaultRange", val |-> 3],
   year        |-> [kind |-> "DefaultRange", val |-> 4],
   all         |-> [kind |-> "DefaultRange", val |-> 5]]

\* int(x) with the result clamped to the positions of DefaultRange
py_int_clamped(x) ==
  CASE x.kind \in {"int", "DefaultRange"} ->
         [exc |-> "", val |-> IF x.val < 0 THEN 0 ELSE IF x.val > 5 THEN 5 ELSE x.val]
    [] x.kind = "float" ->
         [exc |-> "",
          val |-> IF x.val >= 0 THEN x.val \div 10 ELSE -((-x.val) \div 10)]
    [] OTHER -> [exc |-> "TypeError", val |-> 0]

\* int(x): the value of an int or IntEnum member, a float truncated toward
\* zero, TypeError for None
py_int(x) ==
  CASE x.kind \in {"int", "DefaultRange"} -> [exc |-> "", val |-> x.val]
    [] x.kind = "float" ->
         [exc |-> "",
          val |-> IF x.val >= 0 THEN x.val \div 10 ELSE -((-x.val) \div 10)]
    [] OTHER -> [exc |-> "TypeError", val |-> 0]

(***************************************************************************)
(* Outcome of a call: a returned handle or a raised exception.             *)
(***************************************************************************)
NoHandle == [kind |-> "None"]

NoOptions == [none |-> TRUE]

Returned(H) == [status |-> "returned", error |-> "", handle |-> H]

NoOutcome == [status |-> "none", error |-> "", handle |-> NoHandle]

Raised(e) == [status |-> "raised", error |-> e, handle |-> NoHandle]

(***************************************************************************)
(* pandas                                                                  *)
(***************************************************************************)
nrows(df) == Len(df.index)

RangeIndex(n) == [r \in 1..n |-> r - 1]

\* no copy: the same object again
copy_alias(heap, ref) == [heap |-> heap, ref |-> ref]

\* DataFrame.copy(): a new object with the same contents
copy(heap, ref) == [heap |-> Append(heap, heap[ref]), ref |-> Len(heap) + 1]

\* positions of the columns labelled k, in column order
get_loc(cols, k) ==
  SelectSeq([i \in 1..Len(cols) |-> i], LAMBDA i : cols[i] = k)

\* df[name] = values, in place: overwrites the column(s) of that name when
\* present, appends a new last column otherwise
setitem(heap, ref, name, values) ==
  LET df == heap[ref]
      new == IF get_loc(df.columns, name) # <<>>
             THEN [df EXCEPT !.data = [c \in 1..Len(df.columns) |->
                                 IF df.columns[c] = name THEN values ELSE df.data[c]]]
             ELSE [df EXCEPT !.columns = Append(df.columns, name),
                             !.data = Append(df.data, values)]
  IN  [heap EXCEPT ![ref] = new]

\* DataFrame.reset_index(drop): a new frame with a RangeIndex; unless dropped
\* the old index becomes the first column, named after the index, or "index"
\* ("level_0" when "index" is taken); ValueError when that name is a column
reset_index(heap, ref, drop) ==
  LET df   == heap[ref]
      name == IF df.index_name # "" THEN df.index_name
              ELSE IF get_loc(df.columns, "index") = <<>> THEN "index"
              ELSE "level_0"
      base == [df EXCEPT !.index = RangeIndex(nrows(df)), !.index_name = ""]
      new  == IF drop THEN base
              ELSE [base EXCEPT !.columns = <<name>> \o df.columns,
                                !.data = <<df.index>> \o df.data]
  IN  IF ~drop /\ get_loc(df.columns, name) # <<>>
      THEN [exc |-> "ValueError", heap |-> heap, ref |-> ref]
      ELSE [exc |-> "", heap |-> Append(heap, new), ref |-> Len(heap) + 1]

\* df.loc[:, keys] with a list-like of column labels: the columns of each
\* label in the order of the keys; KeyError when a label is missing
RECURSIVE loc_positions(_, _, _)
loc_positions(cols, keys, i) ==
  IF i > Len(keys) THEN [missing |-> FALSE, pos |-> <<>>]
  ELSE LET here == get_loc(cols, keys[i])
           rest == loc_positions(cols, keys, i + 1)
       IN  [missing |-> here = <<>> \/ rest.missing, pos |-> here \o rest.pos]

loc(df, keys) ==
  LET lp  == loc_positions(df.columns, keys, 1)
      pos == lp.pos
  IN  IF lp.missing
      THEN [exc |-> "KeyError", df |-> df]
      ELSE [exc |-> "",
            df  |-> [df EXCEPT !.columns = [p \in 1..Len(pos) |-> df.columns[pos[p]]],
                               !.data = [p \in 1..Len(pos) |-> df.data[pos[p]]]]]

\* df.values.tolist(): one list per row, cells in column order
values_tolist(df) ==
  [r \in 1..nrows(df) |-> [c \in 1..Len(df.columns) |-> df.data[c][r]]]

(***************************************************************************)
(* highcharts: the chart object                                            *)
(***************************************************************************)
Highstock(width, height) ==
  [kind |-> "Highstock", width |-> width, height |-> height,
   series |-> <<>>, options |-> NoOptions]

Highchart(width, height) ==
  [kind |-> "Highchart", width |-> width, height |-> height,
   series |-> <<>>, options |-> NoOptions]

\* no keyword arguments
NoKw == [k \in {} |-> 0]

\* H.add_data_set(data, series_type, name, **kwargs)
data_set(d, series_type, name, kwargs) ==
  [data |-> d, type |-> series_type, name |-> name, kwargs |-> kwargs]

add_data_set(H, d, series_type, name, kwargs) ==
  [H EXCEPT !.series = Append(@, data_set(d, series_type, name, kwargs))]

set_dict_options(H, options) == [H EXCEPT !.options = options]

(***************************************************************************)
(* class _CommonOptions                                                    *)
(***************************************************************************)
CommonOptions_axisFormatDateTime ==
  [type |-> "datetime",
   dateTimeLabelFormats |->
     [millisecond |-> "%H:%M:%S.%L", second |-> "%H:%M:%S", minute |-> "%H:%M",
      hour |-> "%H:%M", day |-> "%e. %b", week |-> "%e. %b", month |-> "%b '%y",
      year |-> "%Y"],
   tickmarkPlacement |-> "on",
   title |-> [enabled |-> FALSE]]

(***************************************************************************)
(* The reshape shared by the line and area builders: the statements        *)
(*   data = data.copy(); groups_name = data.columns.tolist()               *)
(*   data['date_field'] = data.index; data = data.reset_index(drop=True)   *)
(***************************************************************************)
\* the reshape without data.copy(): date_field is written to the table passed
reshape_inplace(heap, ref) ==
  LET groups_name == heap[ref].columns
      h2 == setitem(heap, ref, "date_field", heap[ref].index)
      r  == reset_index(h2, ref, TRUE)
  IN  [heap |-> r.heap, ref |-> r.ref, groups_name |-> groups_name]

reshape(heap, ref) ==
  LET c  == copy(heap, ref)
      groups_name == c.heap[c.ref].columns
      h2 == setitem(c.heap, c.ref, "date_field", c.heap[c.ref].index)
      r  == reset_index(h2, c.ref, TRUE)
  IN  [heap |-> r.heap, ref |-> r.ref, groups_name |-> groups_name]

\* for name in groups_name:
\*     data1 = data.loc[:, ('date_field', name)].values.tolist()
\*     H.add_data_set(data1, 'line', name)          (with yAxis=1 for data2)
\* The loop stops at the first column whose selection raises; the data sets
\* added before it stay on H.
line_loop(H, df, groups_name, kwargs) ==
  LET n      == Len(groups_name)
      sels   == [i \in 1..n |-> loc(df, <<"date_field", groups_name[i]>>)] \o <<>>
      sel(i) == sels[i]
      bad    == {i \in 1..n : sel(i).exc # ""}
      stop   == IF bad = {} THEN n + 1 ELSE CHOOSE i \in bad : \A j \in bad : i <= j
  IN  [exc |-> IF bad = {} THEN "" ELSE sel(stop).exc,
       H   |-> [H EXCEPT !.series = @ \o
                  [i \in 1..(stop - 1) |->
                     data_set(values_tolist(sel(i).df), "line", groups_name[i], kwargs)]]]

line_chart_defaults ==
  [y_name |-> "", title |-> "Chart Title", range_sel |-> DefaultRange.three_month,
   num_decimals |-> 2, legend |-> TRUE, figsize_x |-> 900, figsize_y |-> 700]

line_chart(heap, ref, common, kw) ==
  LET a  == kw @@ line_chart_defaults
      H  == Highstock(a.figsize_x, a.figsize_y)
      rs == reshape(heap, ref)
      lp == line_loop(H, rs.heap[rs.ref], rs.groups_name, NoKw)
      sel == py_int(a.range_sel)
      options ==
        [legend |-> [enabled |-> a.legend],
         rangeSelector |-> [selected |-> sel.val],
         title |-> [text |-> a.title, style |-> [fontSize |-> "21px"]],
         yAxis |-> [title |-> [text |-> a.y_name, style |-> [fontSize |-> "14px"]]],
         tooltip |-> [valueDecimals |-> a.num_decimals,
                      xDateFormat |-> "%A, %b %d, %Y", shared |-> TRUE]]
  IN  [heap |-> rs.heap, common |-> common,
       out |-> IF lp.exc # "" THEN Raised(lp.exc)
               ELSE IF sel.exc # "" THEN Raised(sel.exc)
               ELSE Returned(set_dict_options(lp.H, options))]

line_customline_defaults ==
  [y_name |-> "", title |-> "Chart Title", range_sel |-> DefaultRange.three_month,
   num_decimals |-> 2, line_text |-> "", legend |-> TRUE,
   figsize_x |-> 900, figsize_y |-> 700]

\* pd.Timestamp(s).asm8.astype("datetime64[ms]").astype("int64") for the date
\* strings of the explored calls; any other string does not parse
Timestamp_ms(s) ==
  CASE s = "1970-01-01" -> [exc |-> "", val |-> 0]
    [] s = "1970-01-02" -> [exc |-> "", val |-> 86400000]
    [] OTHER -> [exc |-> "ValueError", val |-> 0]

line_customline(heap, ref, common, kw) ==
  LET a  == kw @@ line_customline_defaults
      H  == Highstock(a.figsize_x, a.figsize_y)
      rs == reshape(heap, ref)
      lp == line_loop(H, rs.heap[rs.ref], rs.groups_name, NoKw)
      sel == py_int(a.range_sel)
      ts == Timestamp_ms(a.plotline_date)
      options ==
        [legend |-> [enabled |-> a.legend],
         rangeSelector |-> [selected |-> sel.val],
         title |-> [text |-> a.title, style |-> [fontSize |-> "21px"]],
         xAxis |-> [plotLines |-> <<[value |-> ts.val, color |-> "black", width |-> 2,
                                     zIndex |-> 4, label |-> [text |-> a.line_text]]>>],
         yAxis |-> [title |-> [text |-> a.y_name, style |-> [fontSize |-> "14px"]]],
         tooltip |-> [valueDecimals |-> a.num_decimals,
                      xDateFormat |-> "%A, %b %d, %Y", shared |-> TRUE]]
  IN  [heap |-> rs.heap, common |-> common,
       out |-> IF lp.exc # "" THEN Raised(lp.exc)
               ELSE IF sel.exc # "" THEN Raised(sel.exc)
               ELSE IF ts.exc # "" THEN Raised(ts.exc)
               ELSE Returned(set_dict_options(lp.H, options))]

(***************************************************************************)
(* area_stacked and area_pct_total                                         *)
(***************************************************************************)
palette == <<"#7cb5ec", "#434348", "#90ed7d", "#f7a35c", "#8085e9",
             "#f15c80", "#e4d354", "#2b908f", "#f45b5b", "#91e8e1">>

\* list * n
RECURSIVE list_mul(_, _)
list_mul(list, n) == IF n <= 0 THEN <<>> ELSE list \o list_mul(list, n - 1)

\* default_colors = [...] * 10, written out once in each of the two builders
area_stacked_default_colors == list_mul(palette, 10)

\* the second copy of the list with its first two colours exchanged
area_pct_total_default_colors_swapped ==
  list_mul(<<palette[2], palette[1]>> \o SubSeq(palette, 3, Len(palette)), 10)

area_pct_total_default_colors == list_mul(palette, 10)

\* list[i] for i >= 0, zero based
list_getitem(list, i) ==
  IF i < Len(list) THEN [exc |-> "", val |-> list[i + 1]]
  ELSE [exc |-> "IndexError", val |-> ""]

\* plt.matplotlib.colors.rgb2hex(colormap(normInstance(i))) with
\* normInstance = Normalize(vmin=0, vmax=n): the colour of the map at i/n,
\* left uninterpreted
cmap_color(cmap, i, n) ==
  "rgb2hex(" \o cmap \o "(" \o ToString(i) \o "/" \o ToString(n) \o "))"

\* for i, name in enumerate(groups_name):
\*     if cmap is None: color = default_colors[i]
\*     else: color = plt.matplotlib.colors.rgb2hex(colormap(normInstance(i)))
\*     data1 = data.loc[:, ('date_field', name)].values.tolist()
\*     H.add_data_set(data1, 'area', name, color=color)
\* with i counted from 0; the loop stops at the first i that raises.
area_loop(H, df, groups_name, cmap, default_colors) ==
  LET n        == Len(groups_name)
      color(i) == IF cmap = "None" THEN list_getitem(default_colors, i)
                  ELSE [exc |-> "", val |-> cmap_color(cmap, i, n)]
      sels     == [k \in 1..n |-> loc(df, <<"date_field", groups_name[k]>>)] \o <<>>
      sel(i)   == sels[i + 1]
      exc(i)   == IF color(i).exc # "" THEN color(i).exc ELSE sel(i).exc
      bad      == {i \in 0..(n - 1) : exc(i) # ""}
      stop     == IF bad = {} THEN n ELSE CHOOSE i \in bad : \A j \in bad : i <= j
  IN  [exc |-> IF bad = {} THEN "" ELSE exc(stop),
       H   |-> [H EXCEPT !.series = @ \o
                  [k \in 1..stop |->
                     data_set(values_tolist(sel(k - 1).df), "area", groups_name[k],
                              [color |-> color(k - 1).val])]]]

area_defaults ==
  [y_name |-> "", title |-> "Chart title", range_sel |-> DefaultRange.three_month,
   num_decimals |-> 2, legend |-> TRUE, norm |-> "None", cmap |-> "None",
   figsize_x |-> 900, figsize_y |-> 700]

area_formatter == "function () { return this.value ; }"

area_stacked(heap, ref, common, kw) ==
  LET a  == kw @@ area_defaults
      H  == Highstock(a.figsize_x, a.figsize_y)
      rs == reshape(heap, ref)
      lp == area_loop(H, rs.heap[rs.ref], rs.groups_name, a.cmap,
                      area_stacked_default_colors)
      sel == py_int(a.range_sel)
      options ==
        [legend |-> [enabled |-> a.legend],
         rangeSelector |-> [selected |-> sel.val],
         title |-> [text |-> a.title, style |-> [fontSize |-> "20px"]],
         xAxis |-> common,
         yAxis |-> [title |-> [text |-> a.y_name, style |-> [fontSize |-> "13px"]],
                    labels |-> [formatter |-> area_formatter]],
         tooltip |-> [shared |-> TRUE, xDateFormat |-> "%A, %b %d, %Y",
                      valueDecimals |-> a.num_decimals],
         plotOptions |-> [area |-> [stacking |-> "normal", connectNulls |-> TRUE,
                                    lineWidth |-> 1, marker |-> [lineWidth |-> 1]]]]
  IN  [heap |-> rs.heap, common |-> common,
       out |-> IF lp.exc # "" THEN Raised(lp.exc)
               ELSE IF sel.exc # "" THEN Raised(sel.exc)
               ELSE Returned(set_dict_options(lp.H, options))]

pct_pointFormat ==
  "<span style=\"color:{series.color}\">{series.name}</span>: <b>{point.y}</b> ({point.percentage:.2f}%)<br/>"

\* groups_name is read from the caller's table before data.copy(); the copy
\* has the same columns
area_pct_total(heap, ref, common, kw) ==
  LET a  == kw @@ area_defaults
      H  == Highstock(a.figsize_x, a.figsize_y)
      rs == reshape(heap, ref)
      lp == area_loop(H, rs.heap[rs.ref], rs.groups_name, a.cmap,
                      area_pct_total_default_colors)
      sel == py_int(a.range_sel)
      options ==
        [legend |-> [enabled |-> a.legend],
         rangeSelector |-> [selected |-> sel.val],
         title |-> [text |-> a.title, style |-> [fontSize |-> "20px"]],
         xAxis |-> common,
         yAxis |-> [title |-> [text |-> "Percent of " \o a.y_name,
                               style |-> [fontSize |-> "13px"]],
                    labels |-> [formatter |-> area_formatter]],
         tooltip |-> [shared |-> TRUE, pointFormat |-> pct_pointFormat,
                      valueDecimals |-> a.num_decimals],
         plotOptions |-> [area |-> [stacking |-> "percent", connectNulls |-> TRUE,
                                    lineWidth |-> 1, marker |-> [lineWidth |-> 1]]]]
  IN  [heap |-> rs.heap, common |-> common,
       out |-> IF lp.exc # "" THEN Raised(lp.exc)
               ELSE IF sel.exc # "" THEN Raised(sel.exc)
               ELSE Returned(set_dict_options(lp.H, options))]

(***************************************************************************)
(* line_secondary_y                                                        *)
(***************************************************************************)
line_secondary_y_defaults ==
  [title |-> "Chart title", range_sel |-> DefaultRange.three_month,
   num_decimals |-> 2, figsize_x |-> 900, figsize_y |-> 700]

line_secondary_y(heap, ref, ref2, common, kw) ==
  LET a   == kw @@ line_secondary_y_defaults
      H   == Highstock(a.figsize_x, a.figsize_y)
      c1  == copy(heap, ref)
      c2  == copy(c1.heap, ref2)
      groups_name  == c2.heap[c1.ref].columns
      groups_name2 == c2.heap[c2.ref].columns
      h3  == setitem(c2.heap, c1.ref, "date_field", c2.heap[c1.ref].index)
      r1  == reset_index(h3, c1.ref, TRUE)
      h4  == setitem(r1.heap, c2.ref, "date_field", r1.heap[c2.ref].index)
      r2  == reset_index(h4, c2.ref, FALSE)
      lp1 == line_loop(H, r2.heap[r1.ref], groups_name, NoKw)
      lp2 == line_loop(lp1.H, r2.heap[r2.ref], groups_name2, [yAxis |-> 1])
      sel == py_int(a.range_sel)
      options ==
        [legend |-> [enabled |-> TRUE],
         rangeSelector |-> [selected |-> sel.val],
         title |-> [text |-> a.title, style |-> [fontSize |-> "23px"]],
         yAxis |-> <<[title |-> [text |-> a.y_name, style |-> [fontSize |-> "14px"]]],
                     [title |-> [text |-> a.secondy_axis_name,
                                 style |-> [fontSize |-> "14px"]],
                      opposite |-> FALSE]>>,
         tooltip |-> [valueDecimals |-> a.num_decimals,
                      xDateFormat |-> "%A, %b %d, %Y", shared |-> TRUE]]
  IN  [heap |-> r2.heap, common |-> common,
       out |-> IF r2.exc # "" THEN Raised(r2.exc)
               ELSE IF lp1.exc # "" THEN Raised(lp1.exc)
               ELSE IF lp2.exc # "" THEN Raised(lp2.exc)
               ELSE IF sel.exc # "" THEN Raised(sel.exc)
               ELSE Returned(set_dict_options(lp2.H, options))]

(***************************************************************************)
(* line_pct_change                                                         *)
(***************************************************************************)
line_pct_change_defaults ==
  [y_name |-> "", title |-> "Chart title", range_sel |-> DefaultRange.three_month,
   num_decimals |-> 2, legend |-> TRUE, figsize_x |-> 900, figsize_y |-> 700]

pct_change_formatter ==
  "function () { return (this.value > 0 ? ' + ' : '') + this.value + '%'; }"

pct_change_pointFormat ==
  "<span style=\"color:{series.color}\">{series.name}</span>: <b>{point.y}</b> ({point.change}%)<br/>"

line_pct_change(heap, ref, common, kw) ==
  LET a  == kw @@ line_pct_change_defaults
      H  == Highstock(a.figsize_x, a.figsize_y)
      rs == reshape(heap, ref)
      lp == line_loop(H, rs.heap[rs.ref], rs.groups_name, NoKw)
      sel == py_int(a.range_sel)
      options ==
        [legend |-> [enabled |-> a.legend],
         rangeSelector |-> [selected |-> sel.val],
         title |-> [text |-> a.title],
         yAxis |-> [title |-> [text |-> a.y_name],
                    labels |-> [formatter |-> pct_change_formatter],
                    plotLines |-> <<[value |-> 0, width |-> 2, color |-> "silver"]>>],
         plotOptions |-> [series |-> [compare |-> "percent"]],
         tooltip |-> [pointFormat |-> pct_change_pointFormat,
                      valueDecimals |-> a.num_decimals]]
  IN  [heap |-> rs.heap, common |-> common,
       out |-> IF lp.exc # "" THEN Raised(lp.exc)
               ELSE IF sel.exc # "" THEN Raised(sel.exc)
               ELSE Returned(set_dict_options(lp.H, options))]

(***************************************************************************)
(* boxplot                                                                 *)
(***************************************************************************)
\* data.columns = names, in place; ValueError on a length mismatch
set_columns(heap, ref, names) ==
  IF Len(heap[ref].columns) # Len(names)
  THEN [exc |-> "ValueError", heap |-> heap]
  ELSE [exc |-> "", heap |-> [heap EXCEPT ![ref].columns = names]]

\* the cells of the first column labelled name
column(df, name) == df.data[get_loc(df.columns, name)[1]]

\* the row orders data.sort_values(by) may produce: every permutation of the
\* rows that puts the cells of the column in ascending order (the sort is
\* not stable)
RowOrders(n) ==
  {p \in [1..n -> 1..n] : \A i, j \in 1..n : i # j => p[i] # p[j]}

sort_orders(cells) ==
  {p \in RowOrders(Len(cells)) :
     \A i \in 1..(Len(cells) - 1) : cells[p[i]] <= cells[p[i + 1]]}

\* data.sort_values(by): a new frame, rows (labels and cells) in that order
sort_values(heap, ref, order) ==
  LET df  == heap[ref]
      new == [df EXCEPT !.index = [r \in 1..nrows(df) |-> df.index[order[r]]],
                        !.data = [c \in 1..Len(df.columns) |->
                                    [r \in 1..nrows(df) |-> df.data[c][order[r]]]]]
  IN  [heap |-> Append(heap, new), ref |-> Len(heap) + 1]

RECURSIVE seq_sum(_)
seq_sum(s) == IF s = <<>> THEN 0 ELSE Head(s) + seq_sum(Tail(s))

RECURSIVE pow10(_)
pow10(d) == IF d = 0 THEN 1 ELSE 10 * pow10(d - 1)

\* Series.mean(): the sum over the count as an exact fraction, NaN when empty
series_mean(s) ==
  IF s = <<>> THEN [nan |-> TRUE, num |-> 0, den |-> 1]
  ELSE [nan |-> FALSE, num |-> seq_sum(s), den |-> Len(s)]

\* rounding down instead of to the nearest
py_round_floor(x, ndigits) ==
  IF x.nan THEN [nan |-> TRUE, scaled |-> 0, ndigits |-> ndigits]
  ELSE [nan |-> FALSE, ndigits |-> ndigits,
        scaled |-> (x.num * pow10(ndigits)) \div x.den]

\* round(x, ndigits) of a numpy float: to the nearest multiple of 10^-ndigits,
\* ties to the even one; the result is held in units of 10^-ndigits
py_round(x, ndigits) ==
  IF x.nan THEN [nan |-> TRUE, scaled |-> 0, ndigits |-> ndigits]
  ELSE LET n == x.num * pow10(ndigits)
           q == n \div x.den
           r == n % x.den
       IN  [nan |-> FALSE, ndigits |-> ndigits,
            scaled |-> IF 2 * r < x.den THEN q
                       ELSE IF 2 * r > x.den THEN q + 1
                       ELSE IF q % 2 = 0 THEN q ELSE q + 1]

\* the decimal digits of frac, zero padded to width digits, trailing zeros
\* removed
RECURSIVE frac_digits(_, _)
frac_digits(frac, width) ==
  IF width = 0 \/ frac = 0 THEN ""
  ELSE ToString(frac \div pow10(width - 1))
         \o frac_digits(frac % pow10(width - 1), width - 1)

\* str(x) of a float: sign, integer part, point, at least one decimal
float_str(x) ==
  IF x.nan THEN "nan"
  ELSE LET m == IF x.scaled < 0 THEN -x.scaled ELSE x.scaled
           f == frac_digits(m % pow10(x.ndigits), x.ndigits)
       IN  (IF x.scaled < 0 THEN "-" ELSE "") \o ToString(m \div pow10(x.ndigits))
             \o "." \o (IF f = "" THEN "0" ELSE f)

\* ascending sequence of the members of a set of numbers
RECURSIVE sorted_set(_)
sorted_set(S) ==
  IF S = {} THEN <<>>
  ELSE LET m == CHOOSE x \in S : \A y \in S : x <= y
       IN  <<m>> \o sorted_set(S \ {m})

\* ascending sequence of the elements of a sequence of numbers
RECURSIVE sorted(_)
sorted(s) ==
  IF s = <<>> THEN <<>>
  ELSE LET i == CHOOSE k \in 1..Len(s) : \A j \in 1..Len(s) : s[k] <= s[j]
       IN  <<s[i]>> \o sorted(SubSeq(s, 1, i - 1) \o SubSeq(s, i + 1, Len(s)))

\* data.groupby(by): the group keys in ascending order, and the cells of a
\* column in the rows of one key
groupby_keys(df, by) ==
  sorted_set({column(df, by)[r] : r \in 1..nrows(df)})

\* the cells of the column in all rows, whatever the key
group_cells_all(df, by, key, name) == column(df, name)

group_cells(df, by, key, name) ==
  LET rows == SelectSeq([r \in 1..nrows(df) |-> r], LAMBDA r : column(df, by)[r] = key)
  IN  [k \in 1..Len(rows) |-> column(df, name)[rows[k]]]

\* the interpolation with the two order statistics exchanged
quantile_swapped(s, quarters) ==
  LET x  == sorted(s)
      h  == (Len(x) - 1) * quarters
      lo == h \div 4
      fr == h % 4
  IN  IF fr = 0 THEN 4 * x[lo + 1]
      ELSE 4 * x[lo + 1] + fr * (x[lo + 1] - x[lo + 2])

\* Series.quantile(q) with q = quarters/4, linear interpolation between the
\* two nearest order statistics; the result is held in quarters
quantile(s, quarters) ==
  LET x  == sorted(s)
      h  == (Len(x) - 1) * quarters
      lo == h \div 4
      fr == h % 4
  IN  IF fr = 0 THEN 4 * x[lo + 1]
      ELSE 4 * x[lo + 1] + fr * (x[lo + 2] - x[lo + 1])

\* data_box_quant = data.groupby('date_field').count()
\* for i in range(0, 125, 25):
\*     data_box_quant['quantile_' + str(i)] = data.groupby('date_field').column_1.quantile(i / 100.0)
groupby_count(df, by) ==
  LET keys  == groupby_keys(df, by)
      names == SelectSeq(df.columns, LAMBDA c : c # by)
  IN  [columns |-> names, index |-> keys, index_name |-> by,
       data |-> [c \in 1..Len(names) |->
                   [k \in 1..Len(keys) |-> Len(group_cells(df, by, keys[k], names[c]))]]]

groupby_quantile(df, by, name, quarters) ==
  LET keys == groupby_keys(df, by)
  IN  [k \in 1..Len(keys) |-> quantile(group_cells(df, by, keys[k], name), quarters)]

RECURSIVE quantile_loop(_, _, _, _)
quantile_loop(heap, ref, df, i) ==
  IF i >= 125 THEN heap
  ELSE quantile_loop(setitem(heap, ref, "quantile_" \o ToString(i),
                             groupby_quantile(df, "date_field", "column_1", i \div 25)),
                     ref, df, i + 25)

\* toolz.assoc(d, 'title', value): a new dict, d itself is left as it is
assoc_title(d, value) == [d EXCEPT !.title = value]

\* d['title'] = value on the dict passed, which is then returned
assoc_inplace(d, value) ==
  [new |-> assoc_title(d, value), d |-> assoc_title(d, value)]

\* the call assoc(d, 'title', value) as the caller sees it: the dict it gets
\* back, and d after the call
assoc(d, value) == [new |-> assoc_title(d, value), d |-> d]

boxplot_defaults == [x_name |-> "Date", figsize_x |-> 900, figsize_y |-> 700]

boxplot(heap, ref, common, kw, order) ==
  LET a    == kw @@ boxplot_defaults
      H    == Highchart(a.figsize_x, a.figsize_y)
      c    == copy(heap, ref)
      sc   == set_columns(c.heap, c.ref, <<"date_field", "column_1">>)
      sv   == sort_values(sc.heap, c.ref, order)
      df   == sv.heap[sv.ref]
      mean == py_round(series_mean(column(df, "column_1")), a.num_decimals)
      hq0  == Append(sv.heap, groupby_count(df, "date_field"))
      hq   == quantile_loop(hq0, Len(hq0), df, 0)
      ri   == reset_index(hq, Len(hq0), FALSE)
      sel  == loc(ri.heap[ri.ref], <<"date_field", "quantile_0", "quantile_25",
                                     "quantile_50", "quantile_75", "quantile_100">>)
      H1   == add_data_set(H, values_tolist(sel.df), "boxplot", a.y_name,
                           [tooltip |-> [headerFormat |-> "<em>Date {point.key}</em><br/>"]])
      xa   == assoc(common, [text |-> a.x_name])
      options ==
        [chart |-> [type |-> "boxplot"],
         title |-> [text |-> a.title],
         legend |-> [enabled |-> FALSE],
         xAxis |-> xa.new,
         yAxis |->
           [title |-> [text |-> a.y_name],
            plotLines |->
              <<[value |-> mean, color |-> "red", width |-> 1, zIndex |-> 4,
                 label |->
                   [text |-> "Mean: " \o float_str(mean) \o "  ",
                    align |-> "right",
                    style |->
                      [color |-> "gray",
                       plotOptions |->
                         [series |-> [dataLabels |->
                            [enabled |-> TRUE, crop |-> FALSE,
                             overflow |-> "none"]]]]]]>>],
         tooltip |-> [valueDecimals |-> a.num_decimals,
                      xDateFormat |-> "%A, %b %d, %Y", shared |-> TRUE]]
  IN  IF sc.exc # ""
      THEN [heap |-> sc.heap, common |-> common, out |-> Raised(sc.exc)]
      ELSE IF ri.exc # ""
      THEN [heap |-> ri.heap, common |-> common, out |-> Raised(ri.exc)]
      ELSE IF sel.exc # ""
      THEN [heap |-> ri.heap, common |-> common, out |-> Raised(sel.exc)]
      ELSE [heap |-> ri.heap, common |-> xa.d,
            out |-> Returned(set_dict_options(H1, options))]

(***************************************************************************)
(* The caller holds two tables and calls the builders on them, in any      *)
(* order, with keyword arguments of its choice.                            *)
(***************************************************************************)
\* row labels of the caller's tables: unsorted and repeated timestamps occur
IndexLists == {<<>>, <<2000>>, <<2000, 1000>>, <<1000, 1000>>, <<2000, 1000, 2000>>,
               <<3000, 2000, 1000, 2000>>}

\* the cells of one column, top to bottom
ColumnData == {<<>>, <<1>>, <<4>>, <<4, 1>>, <<1, 4>>, <<4, 4>>,
               <<4, 1, 4>>, <<1, 1, 4>>, <<4, 1, 3>>, <<4, 2, 1, 1>>, <<1, 4, 4, 2>>}

ColumnLists == {<<>>, <<"A">>, <<"B", "A">>, <<"date_field", "A">>}

\* the tables a caller passes: every column list with every index of at most
\* MaxRows rows and every choice of column cells of that many rows
Tables ==
  UNION {UNION {{[columns |-> cols, index |-> idx, index_name |-> "", data |-> d] :
                   d \in [1..Len(cols) -> {v \in ColumnData : Len(v) = Len(idx)}]} :
                idx \in {i \in IndexLists : Len(i) <= MaxRows}} :
         cols \in ColumnLists}

\* tables with as many columns as default_colors has entries, and one more
WideTables ==
  {[columns |-> [c \in 1..n |-> "c" \o ToString(c)], index |-> <<2000>>,
    index_name |-> "", data |-> [c \in 1..n |-> <<4>>]] :
     n \in {Len(area_stacked_default_colors), Len(area_stacked_default_colors) + 1}}

\* the second table of line_secondary_y, with and without a named index
Tables2 ==
  {[columns |-> cols, index |-> <<5000, 3000>>, index_name |-> n,
    data |-> [c \in 1..Len(cols) |-> <<10 * c + 2, 10 * c + 1>>]] :
     cols \in {<<"C">>, <<"date_field", "D">>}, n \in {"", "C"}}

NoTable == [columns |-> <<>>, index |-> <<>>, index_name |-> "", data |-> <<>>]

NoCall == [fn |-> "", data |-> NoTable, data2 |-> NoTable, kw |-> NoKw]

RangeSelKw ==
  {NoKw, [range_sel |-> PyInt(7)], [range_sel |-> PyInt(-1), legend |-> FALSE],
   [range_sel |-> DefaultRange.all, y_name |-> "USD", num_decimals |-> 0],
   [range_sel |-> PyNone]}

CustomlineKw ==
  {[plotline_date |-> "1970-01-02"],
   [plotline_date |-> "1970-01-02", range_sel |-> PyInt(6), line_text |-> "launch"],
   [plotline_date |-> "1970-01-01", range_sel |-> PyFloat(-29)],
   [plotline_date |-> "yesterday"]}

AreaKw ==
  {NoKw, [range_sel |-> PyInt(7), y_name |-> "USD"],
   [cmap |-> "viridis", legend |-> FALSE], [range_sel |-> PyNone]}

Init ==
  /\ call = NoCall
  /\ \/ data \in Tables /\ data2 \in Tables2
     \/ data \in WideTables /\ data2 = NoTable
  /\ chart = NoOutcome
  /\ axisFormatDateTime = CommonOptions_axisFormatDateTime

\* the caller's view after a call: the call it made, its two tables, the
\* outcome, the module level defaults
Called(fn, kw, r) ==
  /\ call' = [fn |-> fn, data |-> data, data2 |-> data2, kw |-> kw]
  /\ data' = r.heap[1]
  /\ data2' = r.heap[2]
  /\ chart' = r.out
  /\ axisFormatDateTime' = r.common

CallLineChart ==
  \E kw \in RangeSelKw :
    \E r \in {line_chart(<<data, data2>>, 1, axisFormatDateTime, kw)} :
      Called("line_chart", kw, r)

CallLineCustomline ==
  \E kw \in CustomlineKw :
    \E r \in {line_customline(<<data, data2>>, 1, axisFormatDateTime, kw)} :
      Called("line_customline", kw, r)

CallAreaStacked ==
  \E kw \in AreaKw :
    \E r \in {area_stacked(<<data, data2>>, 1, axisFormatDateTime, kw)} :
      Called("area_stacked", kw, r)

CallAreaPctTotal ==
  \E kw \in AreaKw :
    \E r \in {area_pct_total(<<data, data2>>, 1, axisFormatDateTime, kw)} :
      Called("area_pct_total", kw, r)

CallLineSecondaryY ==
  \E kw \in {NoKw, [range_sel |-> PyInt(6)], [range_sel |-> PyNone]} :
    LET k == [secondy_axis_name |-> "EUR", y_name |-> "USD"] @@ kw
    IN  \E r \in {line_secondary_y(<<data, data2>>, 1, 2, axisFormatDateTime, k)} :
      Called("line_secondary_y", k, r)

CallBoxplot ==
  \E nd \in 0..MaxDecimals, xn \in {"", "Day"} :
    \E order \in IF Len(data.columns) = 2 THEN sort_orders(data.data[2])
                  ELSE {RangeIndex(0)} :
      LET k0 == [y_name |-> "USD", title |-> "Box", num_decimals |-> nd]
          kw == IF xn = "" THEN k0 ELSE [x_name |-> xn] @@ k0
      IN  \E r \in {boxplot(<<data, data2>>, 1, axisFormatDateTime, kw, order)} :
      Called("boxplot", kw, r)

CallLinePctChange ==
  \E kw \in RangeSelKw :
    \E r \in {line_pct_change(<<data, data2>>, 1, axisFormatDateTime, kw)} :
      Called("line_pct_change", kw, r)

Next ==
  \/ CallLineChart
  \/ CallLineCustomline
  \/ CallAreaStacked
  \/ CallAreaPctTotal
  \/ CallLineSecondaryY
  \/ CallBoxplot
  \/ CallLinePctChange

Spec == Init /\ [][Next]_vars

(***************************************************************************)
(* Vocabulary of the properties                                            *)
(***************************************************************************)
ReshapeFns ==
  {"line_chart", "line_customline", "area_stacked", "area_pct_total", "line_pct_change"}

RangeSelFns == ReshapeFns \cup {"line_secondary_y"}

AreaFns == {"area_stacked", "area_pct_total"}

Given(name) == name \in DOMAIN call.kw

\* the call was given arguments of the documented kinds: an integer (or no)
\* range_sel and a date that parses
IntegerRangeSel == Given("range_sel") => call.kw.range_sel.kind \in {"int", "DefaultRange"}

DocumentedArgs ==
  /\ IntegerRangeSel
  /\ Given("plotline_date") => call.kw.plotline_date \in {"1970-01-01", "1970-01-02"}

returned == chart.status = "returned"

\* the [timestamp, value] pairs of column c of table t, in row order
Pairs(t, c) == [r \in 1..Len(t.index) |-> <<t.index[r], t.data[c][r]>>]

\* series s is the lossless image of column c of table t
SeriesOfColumn(s, t, c) == s.name = t.columns[c] /\ s.data = Pairs(t, c)

\* C1: each of line_chart, line_customline, area_stacked, area_pct_total and
\* line_pct_change attaches one series per value column, in column order,
\* named after the column, holding the column's R [timestamp, value] pairs
\* in row order with the values of the input column.
C1_LosslessReshape ==
  (call.fn \in ReshapeFns /\ returned) =>
     /\ Len(chart.handle.series) = Len(call.data.columns)
     /\ \A c \in 1..Len(call.data.columns) :
          SeriesOfColumn(chart.handle.series[c], call.data, c)

\* C2: in area_stacked and area_pct_total without a colormap, for any number
\* of value columns the series at position i (from 0) has the colour
\* palette[i mod 10].
C2_CyclicPalette ==
  (call.fn \in AreaFns /\ ~Given("cmap") /\ DocumentedArgs) =>
     /\ returned
     /\ Len(chart.handle.series) = Len(call.data.columns)
     /\ \A i \in 0..(Len(call.data.columns) - 1) :
          chart.handle.series[i + 1].kwargs.color = palette[(i % Len(palette)) + 1]

\* what area_stacked gives for the arguments of the last call
Stacked ==
  area_stacked(<<call.data, call.data2>>, 1, axisFormatDateTime, call.kw).out

SameButOptions(a, b) ==
  /\ a.status = b.status
  /\ a.error = b.error
  /\ a.status = "returned" =>
       /\ a.handle.kind = b.handle.kind
       /\ a.handle.width = b.handle.width
       /\ a.handle.height = b.handle.height
       /\ a.handle.series = b.handle.series
       /\ DOMAIN a.handle.options = DOMAIN b.handle.options

\* C3 as stated: for identical inputs the chart of area_pct_total differs from
\* the chart of area_stacked only in the y-axis title text and in
\* plotOptions.area.stacking.
C3_OnlyTitleAndStacking ==
  call.fn = "area_pct_total" =>
     /\ SameButOptions(chart, Stacked)
     /\ returned =>
          LET o == chart.handle.options
              p == Stacked.handle.options
          IN  /\ [o EXCEPT !.yAxis.title.text = "", !.plotOptions.area.stacking = ""]
                   = [p EXCEPT !.yAxis.title.text = "", !.plotOptions.area.stacking = ""]
              /\ o.plotOptions.area.stacking = "percent"
              /\ p.plotOptions.area.stacking = "normal"

\* C3 amended: the two charts differ only in the y-axis title text, in
\* plotOptions.area.stacking and in the tooltip, where area_pct_total sets
\* pointFormat in place of the xDateFormat of area_stacked; legend,
\* rangeSelector, title, xAxis, the rest of yAxis, plotOptions and tooltip,
\* every series record and every series colour are identical.
C3_TitleStackingTooltip ==
  call.fn = "area_pct_total" =>
     /\ SameButOptions(chart, Stacked)
     /\ returned =>
          LET o == chart.handle.options
              p == Stacked.handle.options
              blank(x) == [x EXCEPT !.yAxis.title.text = "",
                                    !.plotOptions.area.stacking = "",
                                    !.tooltip = [shared |-> x.tooltip.shared,
                                                 valueDecimals |-> x.tooltip.valueDecimals]]
          IN  /\ blank(o) = blank(p)
              /\ o.plotOptions.area.stacking = "percent"
              /\ p.plotOptions.area.stacking = "normal"
              /\ DOMAIN o.tooltip = {"shared", "valueDecimals", "pointFormat"}
              /\ DOMAIN p.tooltip = {"shared", "valueDecimals", "xDateFormat"}

\* a two-column area_pct_total chart with a y-axis name
C3_Witness ==
  /\ call.fn = "area_pct_total"
  /\ returned
  /\ Len(chart.handle.series) = 2
  /\ Given("y_name")
  /\ chart.handle.options.yAxis.title.text # Stacked.handle.options.yAxis.title.text

(***************************************************************************)
(* boxplot: what the records and the mean line should be, stated on the    *)
(* caller's table (first column the key, second column the value)          *)
(***************************************************************************)
BoxCall == call.fn = "boxplot" /\ returned

BoxKeys == {call.data.data[1][r] : r \in 1..Len(call.data.index)}

\* the rows of one key
KeyRows(k) == {r \in 1..Len(call.data.index) : call.data.data[1][r] = k}

BoxValue(r) == call.data.data[2][r]

\* the m-th smallest value among the rows of key k, m from 1
OrderStatistic(k, m) ==
  LET rank(r) == Cardinality({q \in KeyRows(k) :
                    BoxValue(q) < BoxValue(r) \/ (BoxValue(q) = BoxValue(r) /\ q <= r)})
  IN  BoxValue(CHOOSE r \in KeyRows(k) : rank(r) = m)

\* four times the j/4 quantile of the values of key k, by linear
\* interpolation between order statistics
Quantile4(k, j) ==
  LET h == (Cardinality(KeyRows(k)) - 1) * j
      m == (h \div 4) + 1
  IN  IF h % 4 = 0 THEN 4 * OrderStatistic(k, m)
      ELSE (4 - (h % 4)) * OrderStatistic(k, m) + (h % 4) * OrderStatistic(k, m + 1)

RECURSIVE Total(_, _)
Total(cells, r) == IF r = 0 THEN 0 ELSE cells[r] + Total(cells, r - 1)

BoxTotal == Total(call.data.data[2], Len(call.data.index))

MeanLines == chart.handle.options.yAxis.plotLines

\* v, in units of 10^-d, is a nearest multiple of 10^-d to total/count
NearestTo(v, d, total, count) ==
  LET e == 2 * (total * pow10(d) - v * count)
  IN  -count <= e /\ e <= count

\* C4: boxplot on a two-column table attaches one data set with exactly one
\* record per distinct value of the first column, each record being
\* [key, q0, q25, q50, q75, q100] with the quantiles (held in quarters) of the
\* values of that key's rows only; the options hold exactly one y-axis plot
\* line, and it is the mean over all rows.
C4_BoxplotRecords ==
  /\ (call.fn = "boxplot" /\ Len(call.data.columns) = 2) => returned
  /\ BoxCall =>
       LET recs == chart.handle.series[1].data
       IN  /\ Len(chart.handle.series) = 1
           /\ Len(recs) = Cardinality(BoxKeys)
           /\ \A k \in BoxKeys : \E i \in 1..Len(recs) : recs[i][1] = k
           /\ \A i \in 1..Len(recs) :
                recs[i] = <<recs[i][1], Quantile4(recs[i][1], 0), Quantile4(recs[i][1], 1),
                            Quantile4(recs[i][1], 2), Quantile4(recs[i][1], 3),
                            Quantile4(recs[i][1], 4)>>
           /\ Len(MeanLines) = 1
           /\ Len(call.data.index) > 0 =>
                /\ ~MeanLines[1].value.nan
                /\ NearestTo(MeanLines[1].value.scaled, MeanLines[1].value.ndigits,
                             BoxTotal, Len(call.data.index))

\* two keys whose groups have different values, so that the quantiles of a
\* group differ from those of all rows and the overall mean from either
\* group's
C4_Witness ==
  /\ BoxCall
  /\ Cardinality(BoxKeys) = 2
  /\ Len(chart.handle.series[1].data) = 2
  /\ chart.handle.series[1].data[1][4] # chart.handle.series[1].data[2][4]
  /\ \A k \in BoxKeys :
       ~NearestTo(MeanLines[1].value.scaled, MeanLines[1].value.ndigits,
                  Quantile4(k, 2), 4)

\* C5: in every record of boxplot q0 <= q25 <= q50 <= q75 <= q100, q0 is the
\* minimum and q100 the maximum of the values of that key.
C5_QuantilesOrdered ==
  BoxCall =>
    \A i \in 1..Len(chart.handle.series[1].data) :
      LET rec == chart.handle.series[1].data[i]
          own == {BoxValue(r) : r \in KeyRows(rec[1])}
      IN  /\ rec[2] <= rec[3] /\ rec[3] <= rec[4] /\ rec[4] <= rec[5] /\ rec[5] <= rec[6]
          /\ \E v \in own : rec[2] = 4 * v /\ \A w \in own : v <= w
          /\ \E v \in own : rec[6] = 4 * v /\ \A w \in own : w <= v

\* a record of a key with several distinct values, the five quantiles
\* strictly increasing
C5_Witness ==
  /\ BoxCall
  /\ \E i \in 1..Len(chart.handle.series[1].data) :
       LET rec == chart.handle.series[1].data[i]
       IN  rec[2] < rec[3] /\ rec[3] < rec[4] /\ rec[4] < rec[5] /\ rec[5] < rec[6]

\* C6: the value of the y-axis plot line of boxplot is the arithmetic mean of
\* all values of the value column, rounded to num_decimals decimals, and the
\* label text shows the same rounded value.
C6_MeanLine ==
  (BoxCall /\ Len(call.data.index) > 0) =>
     LET line == MeanLines[1]
     IN  /\ ~line.value.nan
         /\ line.value.ndigits = call.kw.num_decimals
         /\ NearestTo(line.value.scaled, call.kw.num_decimals, BoxTotal,
                      Len(call.data.index))
         /\ line.label.text = "Mean: " \o float_str(line.value) \o "  "

\* a mean over the rows of two keys that has to be rounded up
C6_Witness ==
  /\ BoxCall
  /\ Cardinality(BoxKeys) = 2
  /\ 2 * ((BoxTotal * pow10(call.kw.num_decimals)) % Len(call.data.index))
       > Len(call.data.index)

\* C7: no builder changes a table of the caller: after a call, returned or
\* raised, both tables have the columns, index, row order and cells they had
\* before it.
C7_TablesUntouched ==
  call.fn # "" => data = call.data /\ data2 = call.data2

\* a boxplot of a table whose rows are not in ascending order of the value
C7_Witness ==
  /\ BoxCall
  /\ \E r \in 1..(Len(data.index) - 1) : data.data[2][r] > data.data[2][r + 1]

\* C8: in every builder that takes range_sel the options have
\* rangeSelector.selected equal to the integer given, also outside 0..5, and
\* an integer range_sel raises no error; without range_sel the value is 1;
\* line_chart with defaults has legend.enabled true.
C8_RangeSelPassedThrough ==
  (call.fn \in RangeSelFns /\ IntegerRangeSel) =>
     /\ chart.error # "TypeError"
     /\ returned =>
          /\ chart.handle.options.rangeSelector.selected =
               (IF Given("range_sel") THEN call.kw.range_sel.val ELSE 1)
          /\ (call.fn = "line_chart" /\ call.kw = NoKw) =>
               chart.handle.options.legend.enabled = TRUE

\* range_sel = 7 comes out as 7
C8_Witness ==
  /\ call.fn \in RangeSelFns
  /\ returned
  /\ Given("range_sel")
  /\ call.kw.range_sel = PyInt(7)
  /\ chart.handle.options.rangeSelector.selected = 7

\* the y-axis a series is drawn on: its yAxis keyword, the first axis without
YAxisOf(s) == IF "yAxis" \in DOMAIN s.kwargs THEN s.kwargs.yAxis ELSE 0

\* C9: line_secondary_y attaches N1 + N2 series, those of data on y-axis 0,
\* those of data2 on y-axis 1, each with the rows, row order and values of its
\* own table, and the options define two y-axes titled y_name and
\* secondy_axis_name.
C9_TwoAxes ==
  (call.fn = "line_secondary_y" /\ DocumentedArgs) =>
     LET n1 == Len(call.data.columns)
         n2 == Len(call.data2.columns)
     IN  /\ returned
         /\ Len(chart.handle.series) = n1 + n2
         /\ \A c \in 1..n1 :
              /\ SeriesOfColumn(chart.handle.series[c], call.data, c)
              /\ YAxisOf(chart.handle.series[c]) = 0
         /\ \A c \in 1..n2 :
              /\ SeriesOfColumn(chart.handle.series[n1 + c], call.data2, c)
              /\ YAxisOf(chart.handle.series[n1 + c]) = 1
         /\ Len(chart.handle.options.yAxis) = 2
         /\ chart.handle.options.yAxis[1].title.text = call.kw.y_name
         /\ chart.handle.options.yAxis[2].title.text = call.kw.secondy_axis_name

PythonErrors == {"ValueError", "TypeError", "IndexError", "KeyError"}

\* C10: a call that fails gives the caller the error and nothing else: no
\* chart handle, and the tables and the module defaults that the next call
\* reads are as they were before the failed call.
C10_FailureLeavesNothing ==
  [][chart'.status = "raised" =>
       /\ chart'.handle = NoHandle
       /\ chart'.error \in PythonErrors
       /\ data' = data
       /\ data2' = data2
       /\ axisFormatDateTime' = axisFormatDateTime]_vars

\* boxplot has failed on a table that does not have two columns
C10_Witness ==
  /\ call.fn = "boxplot"
  /\ chart.status = "raised"
  /\ Len(call.data.columns) # 2
  /\ data = call.data

\* C11: after any sequence of builder calls the module-level x-axis defaults
\* (_CommonOptions.axisFormatDateTime) have their initial value; the x_name
\* title of boxplot goes to a copy, so the xAxis options of area_stacked and
\* area_pct_total are the defaults whatever was called before, and the chart
\* of such a call is the one the builder gives for its arguments alone.
C11_SharedDefaultsKept ==
  /\ axisFormatDateTime = CommonOptions_axisFormatDateTime
  /\ (call.fn \in AreaFns /\ returned) =>
       chart.handle.options.xAxis = CommonOptions_axisFormatDateTime
  /\ call.fn = "area_stacked" =>
       chart = area_stacked(<<call.data, call.data2>>, 1,
                            CommonOptions_axisFormatDateTime, call.kw).out
  /\ call.fn = "area_pct_total" =>
       chart = area_pct_total(<<call.data, call.data2>>, 1,
                              CommonOptions_axisFormatDateTime, call.kw).out

\* boxplot has put its x_name title on the xAxis options of its own chart and
\* the shared defaults still have no title
C11_Witness ==
  /\ call.fn = "boxplot"
  /\ returned
  /\ Given("x_name")
  /\ chart.handle.options.xAxis.title = [text |-> call.kw.x_name]
  /\ axisFormatDateTime.title = [enabled |-> FALSE]

====
